---- MODULE Spec2Model ----
(***************************************************************************)
(* The Stopwatch component of src/src/components/Stopwatch.tsx as a state  *)
(* machine.                                                                *)
(*                                                                         *)
(* The component keeps three pieces of React state (time, isRunning,       *)
(* lapTimes) and one mutable reference (intervalRef).  Its handlers are    *)
(* closures created by a render: handleStartPause reads the isRunning of   *)
(* the render that created it, recordLap reads that render's time and      *)
(* lapTimes.length.  State setters and functional updaters act on the      *)
(* current state.  A render is a step of its own (Render): between a state *)
(* change and the next render the handlers still hold the values of the    *)
(* previous render.                                                        *)
(*                                                                         *)
(* The browser's timer table is the set `timers` of interval handles that  *)
(* were registered by setInterval and not cleared by clearInterval; each   *)
(* of them fires its callback on its own (Tick).                           *)
(***************************************************************************)
EXTENDS Integers, Sequences, FiniteSets

VARIABLES
    time,        \* useState(0): elapsed milliseconds
    isRunning,   \* useState(false)
    lapTimes,    \* useState<LapTime[]>([]), newest first
    intervalRef, \* useRef(null).current: NoTimer or an interval handle
    timers,      \* interval handles registered and not yet cleared
    nextTimer,   \* the handle the next setInterval returns
    rendered,    \* the values the handlers of the last render closed over
    mounted,     \* the component is mounted
    lastOp,      \* history: the step taken last
    phase,       \* history: where the run "start, N ticks, pause" stands
    ticks,       \* history: ticks counted in that run
    pre,         \* history: the component state before the last step
    fmtIn,       \* argument of a formatTime call
    fmtOut       \* its result, <<>> before the call

vars == <<time, isRunning, lapTimes, intervalRef, timers, nextTimer,
          rendered, mounted, lastOp, phase, ticks, pre, fmtIn, fmtOut>>

\* ------------------------------------------------------------------ bounds

MaxTicks == 4
MaxLaps == 2
MaxTimers == 3
FormatSpan == 20

\* --------------------------------------------------------------- constants

\* intervalRef.current === null
NoTimer == 0
\* setTime(prevTime => prevTime + 10)
TickStep == 10
MsPerMinute == 60000
MsPerSecond == 1000
MsPerHundredth == 10
PadWidth == 2

\* ------------------------------------------------------------- formatTime

DigitChars == <<"0", "1", "2", "3", "4", "5", "6", "7", "8", "9">>

\* Number.prototype.toString() of a non-negative integer, as a sequence of
\* characters.
RECURSIVE toString(_)
toString(n) ==
    IF n < 10 THEN <<DigitChars[n + 1]>>
    ELSE toString(n \div 10) \o <<DigitChars[(n % 10) + 1]>>

\* String.prototype.padStart(width, ch): pads on the left up to width and
\* leaves a longer string alone.
RECURSIVE padStart(_, _, _)
padStart(s, width, ch) ==
    IF Len(s) >= width THEN s ELSE padStart(<<ch>> \o s, width, ch)

formatTime_SecondsNotWrapped(totalMilliseconds) ==
    LET minutes == totalMilliseconds \div MsPerMinute
        seconds == totalMilliseconds \div MsPerSecond
        milliseconds == (totalMilliseconds % MsPerSecond) \div MsPerHundredth
    IN  padStart(toString(minutes), PadWidth, "0") \o <<":">>
        \o padStart(toString(seconds), PadWidth, "0") \o <<":">>
        \o padStart(toString(milliseconds), PadWidth, "0")

formatTime(totalMilliseconds) ==
    LET minutes == totalMilliseconds \div MsPerMinute
        seconds == (totalMilliseconds % MsPerMinute) \div MsPerSecond
        milliseconds == (totalMilliseconds % MsPerSecond) \div MsPerHundredth
    IN  padStart(toString(minutes), PadWidth, "0") \o <<":">>
        \o padStart(toString(seconds), PadWidth, "0") \o <<":">>
        \o padStart(toString(milliseconds), PadWidth, "0")

\* ------------------------------------------------------- component state

\* The state the handlers act on, as one value.
Cur ==
    [time |-> time, isRunning |-> isRunning, lapTimes |-> lapTimes,
     intervalRef |-> intervalRef, timers |-> timers, nextTimer |-> nextTimer]

Commit(s) ==
    /\ time' = s.time
    /\ isRunning' = s.isRunning
    /\ lapTimes' = s.lapTimes
    /\ intervalRef' = s.intervalRef
    /\ timers' = s.timers
    /\ nextTimer' = s.nextTimer

\* What a render hands to the closures it creates: handleStartPause depends
\* on [isRunning], recordLap on [time, lapTimes.length].
Snapshot(s) ==
    [time |-> s.time, isRunning |-> s.isRunning, lapLen |-> Len(s.lapTimes)]

\* setInterval(callback, 10): registers a new interval and returns its handle.
setInterval(s) ==
    [s EXCEPT !.timers = @ \cup {s.nextTimer}, !.nextTimer = @ + 1]

\* if (intervalRef.current) { clearInterval(intervalRef.current); }
clearHeldInterval(s) ==
    IF s.intervalRef # NoTimer
    THEN [s EXCEPT !.timers = @ \ {s.intervalRef}]
    ELSE s

startStopwatch(s) ==
    [setInterval(s) EXCEPT !.isRunning = TRUE, !.intervalRef = s.nextTimer]

pauseStopwatch_NoClear(s) ==
    [s EXCEPT !.isRunning = FALSE, !.intervalRef = NoTimer]

pauseStopwatch_ZeroesTime(s) ==
    [clearHeldInterval(s) EXCEPT
        !.isRunning = FALSE, !.time = 0, !.intervalRef = NoTimer]

pauseStopwatch(s) ==
    [clearHeldInterval(s) EXCEPT !.isRunning = FALSE, !.intervalRef = NoTimer]

resetStopwatch_DropNewestLap(s) ==
    [clearHeldInterval(s) EXCEPT
        !.isRunning = FALSE, !.time = 0,
        !.lapTimes = IF @ = <<>> THEN @ ELSE Tail(@),
        !.intervalRef = NoTimer]

resetStopwatch(s) ==
    [clearHeldInterval(s) EXCEPT
        !.isRunning = FALSE, !.time = 0, !.lapTimes = <<>>,
        !.intervalRef = NoTimer]

recordLap_ReplacesNewest(s, r) ==
    IF r.time > 0
    THEN LET newLap == [id |-> r.lapLen + 1,
                        time |-> formatTime(r.time),
                        totalTime |-> r.time]
         IN  [s EXCEPT !.lapTimes =
                        <<newLap>> \o (IF @ = <<>> THEN @ ELSE Tail(@))]
    ELSE s

\* recordLap as created by the render r: time and lapTimes.length are r's,
\* the updater prevLaps => [newLap, ...prevLaps] acts on the current list.
recordLap(s, r) ==
    IF r.time > 0
    THEN LET newLap == [id |-> r.lapLen + 1,
                        time |-> formatTime(r.time),
                        totalTime |-> r.time]
         IN  [s EXCEPT !.lapTimes = <<newLap>> \o @]
    ELSE s

\* handleStartPause as created by the render r.
handleStartPause(s, r) ==
    IF r.isRunning THEN pauseStopwatch(s) ELSE startStopwatch(s)

\* The effect's cleanup: clears the held interval, keeps the reference.
cleanup(s) == clearHeldInterval(s)

\* disabled={time === 0} and disabled={time === 0 && lapTimes.length === 0}
\* of the last render.
LapDisabled == rendered.time = 0

ResetDisabled_Either == rendered.time = 0 \/ rendered.lapLen = 0

ResetDisabled == rendered.time = 0 /\ rendered.lapLen = 0

\* {isRunning ? "Pause" : "Start"} of the last render.
ToggleLabel == IF rendered.isRunning THEN "Pause" ELSE "Start"

\* ---------------------------------------------------------------- history

\* The run of the second testable property: mount, start, N ticks, pause.
\* "fresh" until the first operation, "started" while only ticks followed the
\* start, "paused" from the pause until the next start or reset, "other"
\* for every other course.
PhaseAfter(op) ==
    CASE op = "start" -> IF phase = "fresh" THEN "started" ELSE "other"
      [] op = "pause" -> IF phase \in {"started", "paused"} THEN "paused" ELSE "other"
      [] op = "tick" -> phase
      [] op = "render" -> phase
      [] op = "reset" -> "other"
      [] OTHER -> IF phase = "paused" THEN "paused" ELSE "other"

Record(op) ==
    /\ lastOp' = op
    /\ pre' = Cur
    /\ phase' = PhaseAfter(op)
    /\ ticks' = IF PhaseAfter(op) \in {"started", "paused"}
                THEN (IF op = "tick" /\ phase = "started" THEN ticks + 1 ELSE ticks)
                ELSE 0

\* ------------------------------------------------------------------ steps

Init ==
    /\ time = 0
    /\ isRunning = FALSE
    /\ lapTimes = <<>>
    /\ intervalRef = NoTimer
    /\ timers = {}
    /\ nextTimer = 1
    /\ rendered = [time |-> 0, isRunning |-> FALSE, lapLen |-> 0]
    /\ mounted = TRUE
    /\ lastOp = "mount"
    /\ phase = "fresh"
    /\ ticks = 0
    /\ pre = Cur
    /\ fmtIn = 0
    /\ fmtOut = <<>>

\* A click on the Start/Pause button runs the rendered handleStartPause.
ClickStartPause ==
    /\ mounted
    /\ rendered.isRunning \/ nextTimer <= MaxTimers
    /\ Commit(handleStartPause(Cur, rendered))
    /\ Record(IF rendered.isRunning THEN "pause" ELSE "start")
    /\ UNCHANGED <<rendered, mounted, fmtIn, fmtOut>>

\* A click on the Lap button (enabled in the last render) runs the rendered
\* recordLap.
ClickLap ==
    /\ mounted
    /\ ~LapDisabled
    /\ Len(lapTimes) < MaxLaps
    /\ Commit(recordLap(Cur, rendered))
    /\ Record("lap")
    /\ UNCHANGED <<rendered, mounted, fmtIn, fmtOut>>

\* A click on the Reset button (enabled in the last render).
ClickReset ==
    /\ mounted
    /\ ~ResetDisabled
    /\ Commit(resetStopwatch(Cur))
    /\ Record("reset")
    /\ UNCHANGED <<rendered, mounted, fmtIn, fmtOut>>

Tick_ByOne(h) ==
    /\ h \in timers
    /\ time < MaxTicks * TickStep
    /\ time' = IF mounted THEN time + 1 ELSE time
    /\ Record("tick")
    /\ UNCHANGED <<isRunning, lapTimes, intervalRef, timers, nextTimer,
                   rendered, mounted, fmtIn, fmtOut>>

\* The callback of the registered interval h fires:
\* setTime(prevTime => prevTime + 10).  An update of an unmounted component
\* is dropped.
Tick(h) ==
    /\ h \in timers
    /\ time < MaxTicks * TickStep
    /\ time' = IF mounted THEN time + TickStep ELSE time
    /\ Record("tick")
    /\ UNCHANGED <<isRunning, lapTimes, intervalRef, timers, nextTimer,
                   rendered, mounted, fmtIn, fmtOut>>

\* The component re-renders after a state change: the handlers are created
\* anew over the current state.
Render ==
    /\ mounted
    /\ rendered # Snapshot(Cur)
    /\ rendered' = Snapshot(Cur)
    /\ Record("render")
    /\ UNCHANGED <<time, isRunning, lapTimes, intervalRef, timers, nextTimer,
                   mounted, fmtIn, fmtOut>>

\* The component unmounts: the effect's cleanup runs.
Unmount ==
    /\ mounted
    /\ mounted' = FALSE
    /\ Commit(cleanup(Cur))
    /\ Record("unmount")
    /\ UNCHANGED <<rendered, fmtIn, fmtOut>>

Next ==
    \/ ClickStartPause
    \/ ClickLap
    \/ ClickReset
    \/ \E h \in 1..MaxTimers + 1 : Tick(h)
    \/ Render
    \/ Unmount

Spec == Init /\ [][Next]_vars

\* The browser keeps firing every registered interval: a callback that stays
\* due is eventually run.
TickAny == \E h \in 1..MaxTimers + 1 : Tick(h)

SpecLive == Init /\ [][Next]_vars /\ WF_vars(TickAny)

\* ------------------------------------------------- formatTime on its own

\* The arguments formatTime is tried on: below one second, around the first
\* minute, around ten minutes, around one hundred minutes (three digits of
\* minutes) and around one thousand minutes.
FormatBases == {0, 990, 59990, 61000, 599990, 5999990, 59999990}
FormatInputs == UNION {b .. b + FormatSpan : b \in FormatBases}

InitFormat ==
    /\ time = 0
    /\ isRunning = FALSE
    /\ lapTimes = <<>>
    /\ intervalRef = NoTimer
    /\ timers = {}
    /\ nextTimer = 1
    /\ rendered = [time |-> 0, isRunning |-> FALSE, lapLen |-> 0]
    /\ mounted = TRUE
    /\ lastOp = "mount"
    /\ phase = "fresh"
    /\ ticks = 0
    /\ pre = Cur
    /\ fmtIn \in FormatInputs
    /\ fmtOut = <<>>

CallFormat ==
    /\ fmtOut = <<>>
    /\ fmtOut' = formatTime(fmtIn)
    /\ UNCHANGED <<time, isRunning, lapTimes, intervalRef, timers, nextTimer,
                   rendered, mounted, lastOp, phase, ticks, pre, fmtIn>>

NextFormat == CallFormat

SpecFormat == InitFormat /\ [][NextFormat]_vars

\* ============================================================== properties

\* C1: in every reachable state at most one periodic callback is registered:
\* starting twice with no pause in between, also through two clicks handled
\* by the same rendered handleStartPause, never registers a second interval,
\* so one 10 ms period advances time by 10 and never by 20 or more.
C1_AtMostOneInterval ==
    /\ Cardinality(timers) <= 1
    /\ TickStep * Cardinality(timers) <= TickStep

\* C2: from the initial state, after start and exactly N ticks with no other
\* operation time is N * 10; after the pause that follows, time keeps that
\* value in every later state until the next start or reset.
C2_TicksThenPauseFreezes ==
    phase \in {"started", "paused"} => time = ticks * TickStep

\* The run was started, ticked three times and paused, and a lap click
\* followed the pause.
C2_Witness ==
    /\ phase = "paused"
    /\ ticks = 3
    /\ lastOp = "lap"
    /\ ~isRunning

\* C3: after unmount every periodic callback that was ever registered is
\* cancelled, so that no tick can fire; no interval whose handle was
\* overwritten in intervalRef survives the unmount.
C3_UnmountCancelsEveryInterval ==
    ~mounted => timers = {}

\* C4: reset leads, from every reachable state, to isRunning = false,
\* time = 0, no laps and no periodic callback left registered.
C4_ResetClearsEverything ==
    lastOp = "reset" =>
        /\ ~isRunning
        /\ time = 0
        /\ lapTimes = <<>>
        /\ timers = {}

\* C5: in every reachable state the lap list of length n carries the ids
\* n, n-1, ..., 1 from front to back, so no two laps share an id; also when
\* two laps are recorded by the same rendered recordLap.
C5_LapIdsCountDown ==
    \A i \in 1..Len(lapTimes) : lapTimes[i].id = Len(lapTimes) - i + 1

\* C6: recordLap invoked while time > 0 inserts exactly one record at the
\* front of the lap list, with id = (number of laps before the call) + 1,
\* totalTime = the time at the moment of the call and time = formatTime of
\* it; the laps already present stay behind it, unchanged and in order.
C6_LapSnapshotsCurrentTime ==
    (lastOp = "lap" /\ pre.time > 0) =>
        lapTimes = <<[id |-> Len(pre.lapTimes) + 1,
                      time |-> formatTime(pre.time),
                      totalTime |-> pre.time]>> \o pre.lapTimes

\* C7: recordLap invoked while time is exactly 0 changes neither the lap
\* list nor time nor isRunning; and no lap of a reachable lap list has
\* totalTime = 0.
C7_LapAtZeroIsNoOp ==
    /\ (lastOp = "lap" /\ pre.time = 0) =>
            /\ lapTimes = pre.lapTimes
            /\ time = pre.time
            /\ isRunning = pre.isRunning
    /\ \A i \in 1..Len(lapTimes) : lapTimes[i].totalTime # 0

\* ---- reading a formatted time back

IsDigit(c) == \E d \in 0..9 : DigitChars[d + 1] = c
DigitValue(c) == CHOOSE d \in 0..9 : DigitChars[d + 1] = c

RECURSIVE parseInt(_)
parseInt(s) ==
    IF s = <<>> THEN 0
    ELSE parseInt(SubSeq(s, 1, Len(s) - 1)) * 10 + DigitValue(s[Len(s)])

AllDigits(s) == \A i \in 1..Len(s) : IsDigit(s[i])
Colons(s) == {i \in 1..Len(s) : s[i] = ":"}
FirstColon(s) == CHOOSE i \in Colons(s) : \A j \in Colons(s) : i <= j
LastColon(s) == CHOOSE i \in Colons(s) : \A j \in Colons(s) : j <= i
MinutesField(s) == SubSeq(s, 1, FirstColon(s) - 1)
SecondsField(s) == SubSeq(s, FirstColon(s) + 1, LastColon(s) - 1)
HundredthsField(s) == SubSeq(s, LastColon(s) + 1, Len(s))

\* C8: for every non-negative integer t tried, formatTime(t) is MM:SS:hh
\* with MM = floor(t / 60000) padded with zeros to at least 2 digits,
\* SS = floor((t mod 60000) / 1000) as 2 digits in 00..59 and
\* hh = floor((t mod 1000) / 10) as 2 digits in 00..99, and reading the three
\* fields back gives these numbers; formatTime(0) = "00:00:00",
\* formatTime(61010) = "01:01:01", formatTime(600000) = "10:00:00".
C8_FormatDecomposes ==
    fmtOut # <<>> =>
        /\ Cardinality(Colons(fmtOut)) = 2
        /\ AllDigits(MinutesField(fmtOut))
        /\ AllDigits(SecondsField(fmtOut))
        /\ AllDigits(HundredthsField(fmtOut))
        /\ Len(MinutesField(fmtOut)) >= 2
        /\ Len(MinutesField(fmtOut)) > 2 => MinutesField(fmtOut)[1] # "0"
        /\ Len(SecondsField(fmtOut)) = 2
        /\ Len(HundredthsField(fmtOut)) = 2
        /\ parseInt(MinutesField(fmtOut)) = fmtIn \div 60000
        /\ parseInt(SecondsField(fmtOut)) = (fmtIn % 60000) \div 1000
        /\ parseInt(SecondsField(fmtOut)) \in 0..59
        /\ parseInt(HundredthsField(fmtOut)) = (fmtIn % 1000) \div 10
        /\ parseInt(HundredthsField(fmtOut)) \in 0..99
        /\ fmtIn = 0 => fmtOut = <<"0", "0", ":", "0", "0", ":", "0", "0">>
        /\ fmtIn = 61010 => fmtOut = <<"0", "1", ":", "0", "1", ":", "0", "1">>
        /\ fmtIn = 600000 => fmtOut = <<"1", "0", ":", "0", "0", ":", "0", "0">>

\* formatTime was applied to 100 minutes and 10 ms: three digits of minutes.
C8_Witness ==
    /\ fmtIn = 6000010
    /\ fmtOut = <<"1", "0", "0", ":", "0", "0", ":", "0", "1">>

\* C9: reset invoked when time = 0 and the lap list is empty leaves time and
\* the lap list unchanged, and for every reachable state s,
\* reset(reset(s)) = reset(s).
C9_ResetIdempotent ==
    /\ (lastOp = "reset" /\ pre.time = 0 /\ pre.lapTimes = <<>>) =>
            (time = pre.time /\ lapTimes = pre.lapTimes)
    /\ resetStopwatch(resetStopwatch(Cur)) = resetStopwatch(Cur)
    /\ lastOp = "reset" => resetStopwatch(Cur) = Cur

\* Reset was invoked in a clear state (after an earlier reset that the
\* component had not rendered yet), with two laps recorded before.
C9_Witness ==
    /\ lastOp = "reset"
    /\ pre.time = 0
    /\ pre.lapTimes = <<>>
    /\ ~pre.isRunning
    /\ rendered.lapLen = 2

\* C10: in every reachable state of the mounted component a periodic
\* callback is registered if and only if isRunning = true.
C10_RunningIffTimerRegistered ==
    mounted => ((timers # {}) <=> isRunning)

\* C11: time never decreases except in a reset step: across every step
\* other than reset the new time is >= the old one, a tick step increases it
\* by exactly 10, and every step that is neither a tick nor a reset leaves
\* it unchanged.
C11_TimeMovesOnlyByTickAndReset ==
    /\ lastOp # "reset" => time >= pre.time
    /\ lastOp = "tick" => time = pre.time + 10
    /\ lastOp \notin {"tick", "reset"} => time = pre.time

\* C12: in every state a render produced, the Lap button is disabled iff
\* time = 0, the Reset button is disabled iff time = 0 and there is no lap
\* (so Reset is enabled whenever there is something to clear), and the toggle
\* button reads "Pause" iff isRunning = true.
C12_ControlsFollowState ==
    lastOp \in {"mount", "render"} =>
        /\ LapDisabled <=> time = 0
        /\ ResetDisabled <=> (time = 0 /\ Len(lapTimes) = 0)
        /\ (time > 0 \/ Len(lapTimes) > 0) => ~ResetDisabled
        /\ ToggleLabel = "Pause" <=> isRunning

\* A render of the running stopwatch with time on the clock and no lap: Lap
\* and Reset are enabled, the toggle reads "Pause".
C12_Witness ==
    /\ lastOp = "render"
    /\ isRunning
    /\ time = 20
    /\ lapTimes = <<>>
    /\ ~LapDisabled
    /\ ~ResetDisabled
    /\ ToggleLabel = "Pause"

\* C13: across every step other than reset the lap list does not get
\* shorter, and every lap present before the step is present after it with
\* the same id, time and totalTime at the same distance from the back.
C13_LapsAppendOnly ==
    lastOp # "reset" =>
        /\ Len(lapTimes) >= Len(pre.lapTimes)
        /\ \A k \in 1..Len(pre.lapTimes) :
              Len(lapTimes) >= k =>
                lapTimes[Len(lapTimes) - k + 1]
                    = pre.lapTimes[Len(pre.lapTimes) - k + 1]

\* A second lap was put in front of a first one.
C13_Witness ==
    /\ lastOp = "lap"
    /\ Len(pre.lapTimes) = 1
    /\ Len(lapTimes) = 2
    /\ lapTimes[2] = pre.lapTimes[1]

\* C14: toggle acts as pause when the stopwatch is running and as start
\* otherwise: after every toggle isRunning is the negation of its value
\* before the toggle, for every interleaving of toggle clicks with ticks and
\* renders.
C14_ToggleNegatesRunning ==
    lastOp \in {"start", "pause"} => isRunning = ~pre.isRunning

\* C15: pause invoked while not running changes nothing (time, isRunning,
\* laps, the absent timer handle and the registered intervals stay as they
\* were); pause invoked while running changes nothing but isRunning and the
\* timer registration.
C15_PauseFrame ==
    /\ (lastOp = "pause" /\ ~pre.isRunning) =>
            /\ pre.intervalRef = NoTimer
            /\ time = pre.time
            /\ isRunning = pre.isRunning
            /\ lapTimes = pre.lapTimes
            /\ intervalRef = pre.intervalRef
            /\ timers = pre.timers
    /\ (lastOp = "pause" /\ pre.isRunning) =>
            /\ time = pre.time
            /\ lapTimes = pre.lapTimes
            /\ ~isRunning
            /\ intervalRef = NoTimer
            /\ timers = pre.timers \ {pre.intervalRef}

\* Pause was invoked on a stopwatch that was already paused, with time on
\* the clock and a lap recorded.
C15_Witness ==
    /\ lastOp = "pause"
    /\ ~pre.isRunning
    /\ pre.time = 20
    /\ Len(pre.lapTimes) = 1
    /\ pre.timers = {}

\* C16: the component starts with time = 0, isRunning = false, no laps and
\* no timer registered, and in every reachable state time is a non-negative
\* multiple of 10.
C16_InitialStateAndTimeGrid ==
    /\ lastOp = "mount" =>
            /\ time = 0
            /\ ~isRunning
            /\ lapTimes = <<>>
            /\ intervalRef = NoTimer
            /\ timers = {}
    /\ time >= 0
    /\ time % 10 = 0

\* Three ticks after the start.
C16_Witness ==
    /\ lastOp = "tick"
    /\ time = 30
    /\ pre.time = 20

\* C17: in every reachable state every lap satisfies
\* time = formatTime(totalTime) with totalTime > 0, and its totalTime does
\* not exceed the current time.
C17_LapsWithinElapsed ==
    \A i \in 1..Len(lapTimes) :
        /\ lapTimes[i].time = formatTime(lapTimes[i].totalTime)
        /\ lapTimes[i].totalTime > 0
        /\ lapTimes[i].totalTime <= time

\* C18: in every reachable state the totalTime of the laps does not increase
\* from front to back: the newest lap holds the largest captured time.
C18_LapTimesNonIncreasing ==
    \A i, j \in 1..Len(lapTimes) :
        i < j => lapTimes[i].totalTime >= lapTimes[j].totalTime

\* The time of the model's last tick.
TimeCap == MaxTicks * TickStep

\* First half of C19: after a start, time reaches the cap of the model unless
\* a pause, a reset or an unmount follows, and while the mounted stopwatch is
\* running an interval is registered.
C19_RunningAdvances ==
    /\ (lastOp = "start") ~>
            (time = TimeCap \/ lastOp \in {"pause", "reset", "unmount"})
    /\ [](mounted /\ isRunning => timers # {})

\* Second half of C19: if the mounted stopwatch stays paused from some point
\* on, then from some point on no step changes time.
C19_PausedSettles ==
    <>[](mounted /\ ~isRunning) => <>[][time' = time]_time

\* C19: under weak fairness of the tick, a started stopwatch that is not
\* paused, reset or unmounted keeps advancing up to every bound of the model
\* and its tick is never disabled while it runs; and once paused with no
\* further start, time is eventually constant for ever.
C19_Liveness == C19_RunningAdvances /\ C19_PausedSettles

\* C20: in every reachable state every interval that is registered and not
\* cancelled is the one held in intervalRef.
C20_NoLeakedInterval ==
    \A h \in timers : h = intervalRef

====
